---- MODULE Spec2Model ----
(***************************************************************************)
(* Model of parseMongoFilter (packages/objection/lib/parse-include.js).    *)
(*                                                                         *)
(* A query string is a sequence of parameters.  A parameter key is kept as *)
(* its sequence of tokens: the brackets "[" and "]" and the maximal        *)
(* bracket-free chunks between them, so "filter[age][$gt]" is              *)
(* <<"filter","[","age","]","[","$gt","]">>.  A parameter value is the     *)
(* sequence of its comma-separated pieces.                                 *)
(*                                                                         *)
(* JavaScript values are tagged records: Str, Num, Null, Arr, Obj.         *)
(* A value that may be undefined is a sequence of length at most one.      *)
(***************************************************************************)
EXTENDS Integers, Sequences, FiniteSets, TLC

VARIABLES querystring, pc, filterParams, idx, fieldResults, errors, results

vars == <<querystring, pc, filterParams, idx, fieldResults, errors, results>>

(***************************************************************************)
(* Enumerations required by the parser                                     *)
(***************************************************************************)
MongoOperator ==
  [EQUALS |-> "$eq", NOT_EQUALS |-> "$ne", GREATER_THAN |-> "$gt",
   GREATER_OR_EQUAL |-> "$gte", LESS_THAN |-> "$lt", LESS_OR_EQUAL |-> "$lte",
   ILIKE |-> "ilike", IN_ |-> "$in", NOT_IN |-> "$nin", IS_NULL |-> "IS NULL"]

SqlOperator ==
  [EQUALS |-> "=", NOT_EQUALS |-> "<>", GREATER_THAN |-> ">",
   GREATER_OR_EQUAL |-> ">=", LESS_THAN |-> "<", LESS_OR_EQUAL |-> "<=",
   LIKE |-> "LIKE", ILIKE |-> "ILIKE", IN_ |-> "IN", NOT_IN |-> "NOT IN",
   IS_NULL |-> "IS NULL", IS_NOT_NULL |-> "IS NOT NULL"]

MongoValueType ==
  [NUMBER |-> "number", DATE |-> "date", NULL |-> "null", STRING |-> "string"]

(***************************************************************************)
(* Bounds and input alphabet                                               *)
(***************************************************************************)
MaxParams == 2

\* operator tokens that can follow the field segment; "$bogus" is a token
\* outside the MongoOperator enumeration
OperatorTokens ==
  {MongoOperator.EQUALS, MongoOperator.NOT_EQUALS, MongoOperator.GREATER_THAN,
   MongoOperator.GREATER_OR_EQUAL, MongoOperator.LESS_THAN,
   MongoOperator.LESS_OR_EQUAL, MongoOperator.ILIKE, MongoOperator.IN_,
   MongoOperator.NOT_IN, "$bogus"}

FilterKey(f) == <<"filter", "[", f, "]">>
FilterOpKey(f, o) == <<"filter", "[", f, "]", "[", o, "]">>

\* every operator form of one field
AgeKeys == {FilterKey("age")} \cup {FilterOpKey("age", o) : o \in OperatorTokens}

\* a second field
NameKeys == {FilterKey("name"), FilterOpKey("name", MongoOperator.GREATER_THAN)}

\* keys that are not filter[field]...: a longer top-level name, the bare
\* prefix, another section of the query string
OtherKeys ==
  {<<"filters", "[", "age", "]">>, <<"filter">>, <<"sort">>}

\* the comma-separated pieces of a value: one of each class, and arrays that
\* are numeric, mixed and null
RawValues ==
  {<<"10">>, <<"abc">>, <<"null">>, <<"2020-01-01">>,
   <<"10", "20">>, <<"10", "abc">>, <<"NULL", "null">>}

Params ==
  {[key |-> k, pieces |-> v] : k \in AgeKeys, v \in RawValues}
    \cup {[key |-> k, pieces |-> v] : k \in NameKeys, v \in {<<"abc">>, <<"null">>}}
    \cup {[key |-> k, pieces |-> v] : k \in OtherKeys, v \in {<<"10">>}}

\* an object has no two entries with the same key
DistinctKeys(qstr) ==
  \A i, j \in 1..Len(qstr) : i # j => qstr[i].key # qstr[j].key

(***************************************************************************)
(* JavaScript values                                                       *)
(***************************************************************************)
Str(s) == [t |-> "string", v |-> s]
Num(n) == [t |-> "number", v |-> n]
Null == [t |-> "null"]
Arr(s) == [t |-> "array", v |-> s]
\* a single-key object { [k]: v }
Obj(k, v) == [t |-> "object", k |-> k, v |-> v]

\* Number(value) on the numeric literals of the alphabet
NumericLiterals == {"10", "20"}
Number(s) == CASE s = "10" -> 10 [] s = "20" -> 20

\* String(x) as a template literal `${x}` renders it
TemplateString(x) ==
  CASE x.t = "string" -> x.v
    [] x.t = "null" -> "null"
    [] x.t = "number" -> CHOOSE s \in NumericLiterals : Number(s) = x.v

\* `${opt}` of a value that may be undefined
OptToString(o) == IF o = <<>> THEN "undefined" ELSE o[1]

(***************************************************************************)
(* Helpers required by the parser                                          *)
(***************************************************************************)
\* case-insensitive null sentinel
ToLowerCase(s) == IF s = "NULL" THEN "null" ELSE s
isNullString(s) == ToLowerCase(s) = "null"

DateLiterals == {"2020-01-01"}

\* the class of one raw string
MongoTypeOf(s) ==
  IF s \in NumericLiterals THEN MongoValueType.NUMBER
  ELSE IF isNullString(s) THEN MongoValueType.NULL
  ELSE IF s \in DateLiterals THEN MongoValueType.DATE
  ELSE MongoValueType.STRING

\* the type shared by all values, or <<>> (falsy) when two values differ
areMongoTypesTheSame(values) ==
  IF \A i \in 1..Len(values) : MongoTypeOf(values[i]) = MongoTypeOf(values[1])
  THEN <<MongoTypeOf(values[1])>>
  ELSE <<>>

\* qs.parse(querystring, { depth: 0, comma: true }) of one parameter: the key
\* is kept verbatim, a value with a comma becomes an array
QsValue(pieces) ==
  IF Len(pieces) > 1 THEN [isArray |-> TRUE, v |-> pieces]
  ELSE [isArray |-> FALSE, v |-> pieces[1]]

QsParse(qstr) ==
  [i \in 1..Len(qstr) |-> [key |-> qstr[i].key, value |-> QsValue(qstr[i].pieces)]]

\* the value as it is stored in an error (paramValue)
JsValue(value) ==
  IF value.isArray THEN Arr([i \in 1..Len(value.v) |-> Str(value.v[i])])
  ELSE Str(value.v)

(***************************************************************************)
(* parseMongoFilter, step 1: field, operator, values                       *)
(***************************************************************************)
IsBracket(tok) == tok \in {"[", "]"}

\* key.startsWith("filter"): "filter" has no bracket, so the key starts with
\* it exactly when its first chunk does
NameTails == {"", "s"}
StartsWithFilter(key) ==
  /\ Len(key) > 0
  /\ \E tail \in NameTails : key[1] = "filter" \o tail

FilterParamsOf(qsParams) == SelectSeq(qsParams, LAMBDA e : StartsWithFilter(e.key))

\* param.replace(/\[/g, "]").split("]").filter((s) => s.length)
Segments(key) == SelectSeq(key, LAMBDA tok : ~IsBracket(tok))

FieldOf(key) ==
  IF Len(Segments(key)) >= 2 THEN <<Segments(key)[2]>> ELSE <<>>

ProvidedOperatorOf(key) ==
  IF Len(Segments(key)) >= 3 THEN <<Segments(key)[3]>> ELSE <<>>

createError(qstr, entry, message) ==
  [message |-> message,
   querystring |-> qstr,
   paramKey |->
     "filter[" \o OptToString(FieldOf(entry.key)) \o "]" \o
       (IF ProvidedOperatorOf(entry.key) = <<>> THEN ""
        ELSE "[" \o ProvidedOperatorOf(entry.key)[1] \o "]"),
   paramValue |-> JsValue(entry.value)]

(***************************************************************************)
(* step 2: defaults and type coercion                                      *)
(***************************************************************************)
ValuesOf(value) == IF value.isArray THEN value.v ELSE <<value.v>>

CoerceValue(value, valueType) ==
  IF isNullString(value) THEN Null
  ELSE IF valueType = MongoValueType.NUMBER THEN Num(Number(value))
  ELSE Str(value)

CoerceValues(values, valueType) ==
  [i \in 1..Len(values) |-> CoerceValue(values[i], valueType)]

\* DefaultOperator that looks at the value type before the arity
DefaultOperatorByType(isArray, valueType) ==
  CASE valueType \in {MongoValueType.NUMBER, MongoValueType.DATE} ->
         MongoOperator.EQUALS
    [] valueType = MongoValueType.NULL -> MongoOperator.IS_NULL
    [] OTHER -> IF isArray THEN MongoOperator.IN_ ELSE MongoOperator.ILIKE

DefaultOperator(isArray, valueType) ==
  IF isArray THEN MongoOperator.IN_
  ELSE CASE valueType \in {MongoValueType.NUMBER, MongoValueType.DATE} ->
              MongoOperator.EQUALS
         [] valueType = MongoValueType.NULL -> MongoOperator.IS_NULL
         [] OTHER -> MongoOperator.ILIKE

OperatorOf(providedOperator, isArray, valueType) ==
  IF providedOperator = <<>> THEN DefaultOperator(isArray, valueType)
  ELSE providedOperator[1]

(***************************************************************************)
(* step 3: compatibility checks, in the order of the code                  *)
(***************************************************************************)
Quoted(operator) == "\"" \o operator \o "\""

ArrayCheckFails(isArray, operator) ==
  isArray /\ operator \notin {MongoOperator.IN_, MongoOperator.NOT_IN}

\* NullCheckFails that also rejects plain strings
NullCheckFailsStrings(valueType, operator) ==
  /\ valueType \in {MongoValueType.NULL, MongoValueType.STRING}
  /\ operator \in {MongoOperator.GREATER_THAN, MongoOperator.GREATER_OR_EQUAL,
                   MongoOperator.LESS_THAN, MongoOperator.LESS_OR_EQUAL}

NullCheckFails(valueType, operator) ==
  /\ valueType = MongoValueType.NULL
  /\ operator \in {MongoOperator.GREATER_THAN, MongoOperator.GREATER_OR_EQUAL,
                   MongoOperator.LESS_THAN, MongoOperator.LESS_OR_EQUAL,
                   MongoOperator.ILIKE}

NumberCheckFails(valueType, operator) ==
  valueType = MongoValueType.NUMBER /\ operator = MongoOperator.ILIKE

DateCheckFails(valueType, operator) ==
  valueType = MongoValueType.DATE /\ operator = MongoOperator.ILIKE

\* CompatibilityError with the null check ahead of the array check
CompatibilityErrorNullFirst(isArray, valueType, operator) ==
  IF NullCheckFails(valueType, operator)
    THEN <<Quoted(operator) \o " operator should not be used with null value">>
  ELSE IF ArrayCheckFails(isArray, operator)
    THEN <<Quoted(operator) \o " operator should not be used with array value">>
  ELSE IF NumberCheckFails(valueType, operator)
    THEN <<Quoted(operator) \o " operator should not be used with number values">>
  ELSE IF DateCheckFails(valueType, operator)
    THEN <<Quoted(operator) \o " operator should not be used with date values">>
  ELSE <<>>

\* the message of the first check that fails, or <<>> when none does
CompatibilityError(isArray, valueType, operator) ==
  IF ArrayCheckFails(isArray, operator)
    THEN <<Quoted(operator) \o " operator should not be used with array value">>
  ELSE IF NullCheckFails(valueType, operator)
    THEN <<Quoted(operator) \o " operator should not be used with null value">>
  ELSE IF NumberCheckFails(valueType, operator)
    THEN <<Quoted(operator) \o " operator should not be used with number values">>
  ELSE IF DateCheckFails(valueType, operator)
    THEN <<Quoted(operator) \o " operator should not be used with date values">>
  ELSE <<>>

(***************************************************************************)
(* step 4: mapping to the SQL domain                                       *)
(***************************************************************************)
SqlOperatorTable ==
  (MongoOperator.EQUALS :> SqlOperator.EQUALS)
    @@ (MongoOperator.IS_NULL :> SqlOperator.EQUALS)
    @@ (MongoOperator.NOT_EQUALS :> SqlOperator.NOT_EQUALS)
    @@ (MongoOperator.GREATER_THAN :> SqlOperator.GREATER_THAN)
    @@ (MongoOperator.GREATER_OR_EQUAL :> SqlOperator.GREATER_OR_EQUAL)
    @@ (MongoOperator.LESS_THAN :> SqlOperator.LESS_THAN)
    @@ (MongoOperator.LESS_OR_EQUAL :> SqlOperator.LESS_OR_EQUAL)
    @@ (MongoOperator.ILIKE :> SqlOperator.ILIKE)
    @@ (MongoOperator.IN_ :> SqlOperator.IN_)
    @@ (MongoOperator.NOT_IN :> SqlOperator.NOT_IN)

\* the table lookup: undefined (<<>>) for an operator that is not a key
BaseSqlOperator(operator) ==
  IF operator \in DOMAIN SqlOperatorTable THEN <<SqlOperatorTable[operator]>>
  ELSE <<>>

\* NullAdjust that rewrites EQUALS only
NullAdjustEqualsOnly(sqlOperator, valueType) ==
  IF sqlOperator = <<SqlOperator.EQUALS>> /\ valueType = MongoValueType.NULL
  THEN <<SqlOperator.IS_NULL>>
  ELSE sqlOperator

NullAdjust(sqlOperator, valueType) ==
  IF /\ sqlOperator \in {<<SqlOperator.EQUALS>>, <<SqlOperator.NOT_EQUALS>>}
     /\ valueType = MongoValueType.NULL
  THEN IF sqlOperator = <<SqlOperator.EQUALS>> THEN <<SqlOperator.IS_NULL>>
       ELSE <<SqlOperator.IS_NOT_NULL>>
  ELSE sqlOperator

SqlOperatorOf(operator, valueType) ==
  NullAdjust(BaseSqlOperator(operator), valueType)

\* the operator the wildcard wrapping is keyed on
WildcardOperator == SqlOperator.LIKE

SqlValues(values, sqlOperator) ==
  [i \in 1..Len(values) |->
     IF sqlOperator = <<WildcardOperator>>
     THEN Str("%" \o TemplateString(values[i]) \o "%")
     ELSE values[i]]

operatorIsUnary(sqlOperator) ==
  sqlOperator \in {<<SqlOperator.IS_NULL>>, <<SqlOperator.IS_NOT_NULL>>}

AttributeRef(field) == "#" \o OptToString(field)

\* the operands of an operator that is not unary
Operands(attributeRef, sqlValues) == <<Str(attributeRef)>> \o sqlValues

FieldResult(field, sqlOperator, sqlValues) ==
  IF operatorIsUnary(sqlOperator)
  THEN Obj(OptToString(sqlOperator), Str(AttributeRef(field)))
  ELSE Obj(OptToString(sqlOperator),
           Arr(Operands(AttributeRef(field), sqlValues)))

(***************************************************************************)
(* one iteration of the loop over filterParams                             *)
(***************************************************************************)
IsArrayOf(entry) == entry.value.isArray
ValueTypeOf(entry) == areMongoTypesTheSame(ValuesOf(entry.value))
EntryOperator(entry) ==
  OperatorOf(ProvidedOperatorOf(entry.key), IsArrayOf(entry), ValueTypeOf(entry)[1])

\* FieldError without the compatibility checks
FieldErrorMixedOnly(qstr, entry) ==
  IF ValueTypeOf(entry) = <<>>
  THEN <<createError(qstr, entry, "arrays should not mix multiple value types")>>
  ELSE <<>>

\* the error the iteration returns with, or <<>> when it pushes a result
FieldError(qstr, entry) ==
  IF ValueTypeOf(entry) = <<>>
  THEN <<createError(qstr, entry, "arrays should not mix multiple value types")>>
  ELSE LET msg == CompatibilityError(IsArrayOf(entry), ValueTypeOf(entry)[1],
                                     EntryOperator(entry))
       IN IF msg = <<>> THEN <<>> ELSE <<createError(qstr, entry, msg[1])>>

\* the result the iteration pushes when it has no error
FieldLeaf(entry) ==
  LET valueType == ValueTypeOf(entry)[1]
      sqlOperator == SqlOperatorOf(EntryOperator(entry), valueType)
      values == CoerceValues(ValuesOf(entry.value), valueType)
  IN FieldResult(FieldOf(entry.key), sqlOperator, SqlValues(values, sqlOperator))

(***************************************************************************)
(* the compound filter                                                     *)
(***************************************************************************)
AndNode(prevs, curnt) == Obj("AND", Arr(<<prevs, curnt>>))

\* a fold that nests to the right
RECURSIVE ReduceRight(_)
ReduceRight(s) ==
  IF Len(s) = 1 THEN s[1]
  ELSE AndNode(s[1], ReduceRight(Tail(s)))

\* fieldResults.reduce((prevs, curnt) => ({ AND: [prevs, curnt] })) of a
\* non-empty array: the first element is the initial accumulator
RECURSIVE Reduce(_)
Reduce(s) ==
  IF Len(s) = 1 THEN s[1]
  ELSE AndNode(Reduce(SubSeq(s, 1, Len(s) - 1)), s[Len(s)])

(***************************************************************************)
(* The call parseMongoFilter(querystring)                                  *)
(***************************************************************************)
Init ==
  /\ \E n \in 0..MaxParams : querystring \in [1..n -> Params]
  /\ DistinctKeys(querystring)
  /\ pc = "start"
  /\ filterParams = <<>>
  /\ idx = 1
  /\ fieldResults = <<>>
  /\ errors = <<>>
  /\ results = <<>>

\* lines 41-50
Start ==
  /\ pc = "start"
  /\ filterParams' = FilterParamsOf(QsParse(querystring))
  /\ pc' = "loop"
  /\ UNCHANGED <<querystring, idx, fieldResults, errors, results>>

\* lines 51-224, one iteration
ProcessField ==
  /\ pc = "loop"
  /\ idx <= Len(filterParams)
  /\ LET entry == filterParams[idx]
         err == FieldError(querystring, entry)
     IN IF err # <<>>
        THEN /\ errors' = errors \o err
             /\ pc' = "returned"
             /\ UNCHANGED <<idx, fieldResults>>
        ELSE /\ fieldResults' = Append(fieldResults, FieldLeaf(entry))
             /\ idx' = idx + 1
             /\ UNCHANGED <<errors, pc>>
  /\ UNCHANGED <<querystring, filterParams, results>>

\* lines 226-231: reduce without an initial value throws a TypeError on an
\* empty array
Combine ==
  /\ pc = "loop"
  /\ idx > Len(filterParams)
  /\ IF fieldResults = <<>>
     THEN /\ pc' = "thrown"
          /\ UNCHANGED results
     ELSE /\ results' = <<Reduce(fieldResults)>>
          /\ pc' = "returned"
  /\ UNCHANGED <<querystring, filterParams, idx, fieldResults, errors>>

Next == Start \/ ProcessField \/ Combine

Spec == Init /\ [][Next]_vars

(***************************************************************************)
(* Calls with more filter fields, over a small alphabet of parameters that *)
(* all build a predicate                                                   *)
(***************************************************************************)
MaxFoldParams == 3

FoldParams ==
  {[key |-> FilterOpKey("age", MongoOperator.GREATER_THAN), pieces |-> <<"10">>],
   [key |-> FilterKey("name"), pieces |-> <<"abc">>],
   [key |-> FilterKey("age"), pieces |-> <<"10", "20">>],
   [key |-> FilterOpKey("name", MongoOperator.NOT_EQUALS), pieces |-> <<"null">>],
   [key |-> FilterOpKey("age", MongoOperator.LESS_OR_EQUAL),
    pieces |-> <<"2020-01-01">>]}

InitFold ==
  /\ \E n \in 0..MaxFoldParams : querystring \in [1..n -> FoldParams]
  /\ DistinctKeys(querystring)
  /\ pc = "start"
  /\ filterParams = <<>>
  /\ idx = 1
  /\ fieldResults = <<>>
  /\ errors = <<>>
  /\ results = <<>>

SpecFold == InitFold /\ [][Next]_vars

(***************************************************************************)
(* Vocabulary of the properties                                            *)
(***************************************************************************)
Returned == pc = "returned"
Thrown == pc = "thrown"

\* the fields that built a predicate so far: fieldResults[i] is the
\* predicate of filterParams[i]
Built == 1..Len(fieldResults)

HasType(entry, type) == ValueTypeOf(entry) = <<type>>
IsMixed(entry) == ValueTypeOf(entry) = <<>>
NoOperator(entry) == ProvidedOperatorOf(entry.key) = <<>>
HasOperator(entry, token) == ProvidedOperatorOf(entry.key) = <<token>>
RefOf(entry) == Str("#" \o OptToString(FieldOf(entry.key)))

\* the typed values of a field whose values share one type
TypedValues(entry) ==
  CoerceValues(ValuesOf(entry.value), ValueTypeOf(entry)[1])

IsAnd(node) == node.k = "AND"

\* the leaves of a predicate tree, left to right
RECURSIVE LeavesOf(_)
LeavesOf(node) ==
  IF IsAnd(node) THEN LeavesOf(node.v.v[1]) \o LeavesOf(node.v.v[2])
  ELSE <<node>>

RECURSIVE DepthOf(_)
DepthOf(node) ==
  IF IsAnd(node)
  THEN 1 + (IF DepthOf(node.v.v[1]) >= DepthOf(node.v.v[2])
            THEN DepthOf(node.v.v[1]) ELSE DepthOf(node.v.v[2]))
  ELSE 0

\* every AND node has two operands and a leaf on the right
RECURSIVE LeftLeaning(_)
LeftLeaning(node) ==
  IsAnd(node) =>
    /\ Len(node.v.v) = 2
    /\ ~IsAnd(node.v.v[2])
    /\ LeftLeaning(node.v.v[1])

\* the closed target vocabulary: equals, not-equals, the four orderings,
\* substring-match, in-set, not-in-set, is-null, is-not-null
TargetOperators ==
  {SqlOperator.EQUALS, SqlOperator.NOT_EQUALS, SqlOperator.GREATER_THAN,
   SqlOperator.GREATER_OR_EQUAL, SqlOperator.LESS_THAN,
   SqlOperator.LESS_OR_EQUAL, SqlOperator.ILIKE, SqlOperator.IN_,
   SqlOperator.NOT_IN, SqlOperator.IS_NULL, SqlOperator.IS_NOT_NULL}

\* the four rejection rules, on the resolved operator of a field whose
\* values share one type
RuleMatches(r, entry) ==
  LET operator == EntryOperator(entry)
  IN CASE r = 1 -> /\ entry.value.isArray
                   /\ operator \notin {MongoOperator.IN_, MongoOperator.NOT_IN}
       [] r = 2 -> /\ HasType(entry, MongoValueType.NULL)
                   /\ operator \in
                        {MongoOperator.GREATER_THAN,
                         MongoOperator.GREATER_OR_EQUAL,
                         MongoOperator.LESS_THAN, MongoOperator.LESS_OR_EQUAL,
                         MongoOperator.ILIKE}
       [] r = 3 -> /\ HasType(entry, MongoValueType.NUMBER)
                   /\ operator = MongoOperator.ILIKE
       [] r = 4 -> /\ HasType(entry, MongoValueType.DATE)
                   /\ operator = MongoOperator.ILIKE

MatchingRules(entry) == {r \in {1, 2, 3, 4} : RuleMatches(r, entry)}

LowestOf(S) == CHOOSE r \in S : \A q \in S : r <= q

RuleMessage(r, operator) ==
  Quoted(operator) \o " operator should not be used with " \o
    (CASE r = 1 -> "array value" [] r = 2 -> "null value"
       [] r = 3 -> "number values" [] r = 4 -> "date values")

Fails(entry) == IsMixed(entry) \/ MatchingRules(entry) # {}

(***************************************************************************)
(* C1                                                                      *)
(***************************************************************************)
\* C1: the call is total: it never raises, and a request without any filter
\* field returns no results and no errors.
C1_Total ==
  /\ ~Thrown
  /\ (Returned /\ filterParams = <<>>) => (results = <<>> /\ errors = <<>>)

(***************************************************************************)
(* C2                                                                      *)
(***************************************************************************)
IsScalarStringNoOperator(entry) ==
  /\ ~entry.value.isArray
  /\ HasType(entry, MongoValueType.STRING)
  /\ NoOperator(entry)

\* C2: a scalar string without an operator yields the substring-match
\* predicate on the value wrapped in wildcards; the operands of every other
\* operator that takes values are the typed values unchanged.
C2_StringDefaultIsWrapped ==
  \A i \in Built :
    LET entry == filterParams[i]
        leaf == fieldResults[i]
    IN /\ IsScalarStringNoOperator(entry) =>
            leaf = Obj(SqlOperator.ILIKE,
                       Arr(<<RefOf(entry), Str("%" \o entry.value.v \o "%")>>))
       /\ (~IsScalarStringNoOperator(entry) /\ leaf.v.t = "array"
             /\ leaf.k # SqlOperator.ILIKE) =>
            leaf.v = Arr(<<RefOf(entry)>> \o TypedValues(entry))

(***************************************************************************)
(* C3                                                                      *)
(***************************************************************************)
\* C3: a call with a failing field returns at the first failing field with
\* exactly one error, for that field, and undefined results; no later field
\* is processed.  A call where no field fails returns no error and defined
\* results.  The call returns whenever there is at least one filter field.
C3_ShortCircuit ==
  /\ Thrown => filterParams = <<>>
  /\ Returned =>
       LET failing == {i \in 1..Len(filterParams) : Fails(filterParams[i])}
       IN IF failing # {}
          THEN /\ Len(errors) = 1
               /\ errors[1] = createError(querystring,
                                          filterParams[LowestOf(failing)],
                                          errors[1].message)
               /\ results = <<>>
               /\ idx = LowestOf(failing)
               /\ Len(fieldResults) = LowestOf(failing) - 1
          ELSE errors = <<>> /\ results # <<>>

\* the first field failed and a later field that would have built a
\* predicate was left unprocessed
C3_Witness ==
  /\ Returned
  /\ Len(errors) = 1
  /\ idx = 1
  /\ Len(filterParams) = 2
  /\ ~Fails(filterParams[2])

(***************************************************************************)
(* C4                                                                      *)
(***************************************************************************)
\* C4: a field of null values yields the unary is-null predicate when it is
\* a scalar without operator or has the explicit equals operator, and the
\* unary is-not-null predicate with explicit not-equals; the predicate holds
\* the field reference only.  A field of another type keeps the mapped
\* operator.
C4_NullPredicates ==
  \A i \in Built :
    LET entry == filterParams[i]
        leaf == fieldResults[i]
    IN IF HasType(entry, MongoValueType.NULL)
       THEN /\ ((NoOperator(entry) /\ ~entry.value.isArray)
                  \/ HasOperator(entry, MongoOperator.EQUALS)) =>
                 leaf = Obj(SqlOperator.IS_NULL, RefOf(entry))
            /\ HasOperator(entry, MongoOperator.NOT_EQUALS) =>
                 leaf = Obj(SqlOperator.IS_NOT_NULL, RefOf(entry))
       ELSE /\ leaf.k \notin {SqlOperator.IS_NULL, SqlOperator.IS_NOT_NULL}
            /\ leaf.v.t = "array"
            /\ HasOperator(entry, MongoOperator.EQUALS) =>
                 leaf.k = SqlOperator.EQUALS
            /\ HasOperator(entry, MongoOperator.NOT_EQUALS) =>
                 leaf.k = SqlOperator.NOT_EQUALS

\* a returned call that built an is-null predicate from a scalar null
\* without operator and an is-not-null predicate from an explicit not-equals
C4_Witness ==
  /\ Returned
  /\ \E i, j \in Built :
       /\ HasType(filterParams[i], MongoValueType.NULL)
       /\ NoOperator(filterParams[i])
       /\ fieldResults[i] = Obj(SqlOperator.IS_NULL, RefOf(filterParams[i]))
       /\ HasType(filterParams[j], MongoValueType.NULL)
       /\ HasOperator(filterParams[j], MongoOperator.NOT_EQUALS)
       /\ fieldResults[j] = Obj(SqlOperator.IS_NOT_NULL, RefOf(filterParams[j]))

(***************************************************************************)
(* C5                                                                      *)
(***************************************************************************)
\* C5: when all N fields build a predicate, results is their left fold in
\* extraction order: the predicate itself for N = 1, otherwise a tree of
\* binary AND nodes whose right operands are leaves, of depth N - 1, whose
\* leaves left to right are the N predicates.
C5_LeftFold ==
  (Returned /\ errors = <<>>) =>
    LET tree == results[1]
        N == Len(filterParams)
    IN /\ Len(fieldResults) = N
       /\ \A i \in 1..N : fieldResults[i] = FieldLeaf(filterParams[i])
       /\ LeavesOf(tree) = fieldResults
       /\ LeftLeaning(tree)
       /\ DepthOf(tree) = N - 1
       /\ N = 1 => tree = fieldResults[1]

\* a returned fold of three predicates
C5_Witness ==
  /\ Returned
  /\ errors = <<>>
  /\ Len(fieldResults) = 3
  /\ DepthOf(results[1]) = 2

(***************************************************************************)
(* C6                                                                      *)
(***************************************************************************)
IsNumericArrayNoOperator(entry) ==
  /\ entry.value.isArray
  /\ HasType(entry, MongoValueType.NUMBER)
  /\ NoOperator(entry)

\* the numbers of a numeric array
NumbersOf(entry) ==
  [i \in 1..Len(entry.value.v) |-> Num(Number(entry.value.v[i]))]

\* C6 as stated: the operands of the in-set predicate of a numeric array
\* without operator are the field reference and one sequence of the numbers.
C6_NestedNumbers ==
  \A i \in Built :
    IsNumericArrayNoOperator(filterParams[i]) =>
      fieldResults[i] =
        Obj(SqlOperator.IN_,
            Arr(<<RefOf(filterParams[i]), Arr(NumbersOf(filterParams[i]))>>))

\* C6 amended: a numeric array without operator always builds the in-set
\* predicate, whose operands are the field reference followed by the
\* numbers themselves, one operand each.
C6_SpreadNumbers ==
  /\ \A i \in Built :
       IsNumericArrayNoOperator(filterParams[i]) =>
         fieldResults[i] =
           Obj(SqlOperator.IN_,
               Arr(<<RefOf(filterParams[i])>> \o NumbersOf(filterParams[i])))
  /\ (Returned /\ errors # <<>>) => ~IsNumericArrayNoOperator(filterParams[idx])

\* a returned call whose result is the in-set predicate of 10,20
C6_Witness ==
  /\ Returned
  /\ results = <<Obj(SqlOperator.IN_, Arr(<<Str("#age"), Num(10), Num(20)>>))>>
  /\ IsNumericArrayNoOperator(filterParams[1])

(***************************************************************************)
(* C7                                                                      *)
(***************************************************************************)
\* C7: a field whose values share one type is rejected exactly when one of
\* the four rules matches it; it then produces exactly one error, the one of
\* the lowest-numbered matching rule; a field that matches no rule builds a
\* predicate.
C7_RuleOrder ==
  /\ \A i \in Built :
       ~IsMixed(filterParams[i]) /\ MatchingRules(filterParams[i]) = {}
  /\ (Returned /\ idx <= Len(filterParams)) =>
       /\ Len(errors) = 1
       /\ Len(fieldResults) = idx - 1
       /\ ~IsMixed(filterParams[idx]) =>
            /\ MatchingRules(filterParams[idx]) # {}
            /\ errors[1].message =
                 RuleMessage(LowestOf(MatchingRules(filterParams[idx])),
                             EntryOperator(filterParams[idx]))

\* an array of null values with greater-than was rejected: rules 1 and 2
\* both match
C7_Witness ==
  /\ Returned
  /\ Len(errors) = 1
  /\ MatchingRules(filterParams[idx]) = {1, 2}
  /\ HasOperator(filterParams[idx], MongoOperator.GREATER_THAN)
  /\ errors[1].message = RuleMessage(1, MongoOperator.GREATER_THAN)

(***************************************************************************)
(* C8                                                                      *)
(***************************************************************************)
\* C8: the fields considered are exactly the parameters whose top-level
\* segment is "filter" and that have a field segment; every processed field
\* has a field name.
C8_ExactPrefix ==
  pc # "start" =>
    /\ filterParams =
         SelectSeq(QsParse(querystring),
                   LAMBDA e : e.key[1] = "filter" /\ Len(Segments(e.key)) >= 2)
    /\ \A i \in 1..Len(filterParams) : FieldOf(filterParams[i].key) # <<>>

(***************************************************************************)
(* C9                                                                      *)
(***************************************************************************)
\* filter[name][greater-than]=abc
Query9 ==
  <<[key |-> FilterOpKey("name", MongoOperator.GREATER_THAN),
     pieces |-> <<"abc">>]>>

\* C9 as stated: filter[name][greater-than]=abc returns exactly one error, about the
\* greater-than operator, and no predicate.
C9_StringOrderingRejected ==
  (querystring = Query9 /\ Returned) =>
    /\ Len(errors) = 1
    /\ \E r \in {1, 2, 3, 4} :
         errors[1].message = RuleMessage(r, MongoOperator.GREATER_THAN)
    /\ results = <<>>

\* C9 amended: filter[name][greater-than]=abc returns no error and the predicate
\* greater-than over the field reference and the string "abc".
C9_StringOrderingAccepted ==
  (querystring = Query9 /\ pc \notin {"start", "loop"}) =>
    /\ Returned
    /\ errors = <<>>
    /\ results =
         <<Obj(SqlOperator.GREATER_THAN, Arr(<<Str("#name"), Str("abc")>>))>>

\* the call on filter[name][greater-than]=abc has returned
C9_Witness ==
  /\ querystring = Query9
  /\ Returned
  /\ Len(fieldResults) = 1

(***************************************************************************)
(* C10                                                                     *)
(***************************************************************************)
\* C10: the operator of every leaf of a returned results tree is a member of
\* the target vocabulary.
C10_TargetOperators ==
  (Returned /\ results # <<>>) =>
    \A i \in 1..Len(LeavesOf(results[1])) :
      LeavesOf(results[1])[i].k \in TargetOperators

====
